---- MODULE Spec2Model ----
(***************************************************************************)
(* ClickUp -> BigQuery sync (src/clickup_to_bigquery/main.py).             *)
(*                                                                         *)
(* One sync run (ClickUpToBigQuery.sync_data) is a sequence of blocking    *)
(* calls: the custom-field request, the create-table call, the spaces      *)
(* request, one lists request per space, one tasks request per list, and   *)
(* at most one load job.  The model takes one step per call, plus one step *)
(* for each piece of local computation between two calls (the schema loop, *)
(* the flattening loop).  JSON objects are functions from key strings to   *)
(* values; a key that is absent from an object is absent from the domain.  *)
(*                                                                         *)
(* Nothing but the warehouse table outlives a run, so a behaviour is one   *)
(* run, started on any of the tables an earlier run may have left.         *)
(* fetch_custom_task_types (lines 29-33) has no caller and so no action.   *)
(***************************************************************************)
EXTENDS Naturals, Sequences, FiniteSets, TLC

VARIABLES
    pc,             \* position of the run inside sync_data
    log,            \* logger lines of the current run, in order
    table,          \* the warehouse table clickup_data.tasks
    custom_fields,  \* create_tables_if_not_exist: the fetched definitions
    tasks_schema,   \* create_tables_if_not_exist: the schema being built
    spaces,         \* fetch_tasks: the spaces still to iterate (head = current)
    lists,          \* fetch_tasks: the lists still to iterate (head = current)
    list_tasks,     \* fetch_tasks: the tasks returned for the current list
    tasks,          \* fetch_tasks: the flattened records accumulated so far
    calls,          \* every external call of the current run, with its answer
    origin,         \* for each record of tasks: the requests that returned it
    rowsBefore      \* the rows of the table when the current run started

vars == <<pc, log, table, custom_fields, tasks_schema, spaces, lists,
          list_tasks, tasks, calls, origin, rowsBefore>>

---------------------------------------------------------------------------
(* Bounds of the model. *)

MaxSpaces == 2   \* spaces in one spaces response
MaxLists  == 1   \* lists in one lists response
MaxTasks  == 1   \* tasks in one tasks response
MaxDefs   == 1   \* custom-field definitions in one response during a run
MaxPure   == 2   \* length of the inputs of the schema and flattening loops

SeqsUpTo(S, n) == UNION {[1..m -> S] : m \in 0..n}

\* the sequences of at most n different elements of S
ListingsUpTo(S, n) ==
    {s \in SeqsUpTo(S, n) : \A i, j \in 1..Len(s) : s[i] = s[j] => i = j}

---------------------------------------------------------------------------
(* Python values. *)

None == "<None>"           \* what dict.get returns for an absent key

\* the key written for a custom field: f"custom_field_{field['id']}"
ColumnName(id) == "custom_field_" \o id

\* task[k] = v on a dict
SetKey(d, k, v) == [x \in (DOMAIN d) \cup {k} |-> IF x = k THEN v ELSE d[x]]

\* d.get(k, default)
DictGet(d, k, default) == IF k \in DOMAIN d THEN d[k] ELSE default

---------------------------------------------------------------------------
(* Source-API responses.  status 0 stands for a request that never got an  *)
(* answer (requests.get raises); json says what the body parses to.        *)

ConnError == [status |-> 0,   json |-> "none",    body |-> <<>>]
NotJson   == [status |-> 502, json |-> "invalid", body |-> <<>>]
JsonArray == [status |-> 200, json |-> "array",   body |-> <<>>]
ErrorBody == [status |-> 401, json |-> "object",  body |-> [err |-> "Token invalid"]]
NoKeyBody == [status |-> 200, json |-> "object",  body |-> [unexpected |-> "shape"]]

OkBody(key, items) ==
    [status |-> 200, json |-> "object", body |-> SetKey(<<>>, key, items)]

\* requests.get(url, headers=...).json().get(key, [])
\* No status check is made: only a missing answer, an unparsable body or a
\* body that is not an object raises.
JsonGet(resp, key) ==
    IF resp.status = 0 THEN [raised |-> "ConnectionError", value |-> <<>>]
    ELSE IF resp.json = "invalid" THEN [raised |-> "JSONDecodeError", value |-> <<>>]
    ELSE IF resp.json # "object" THEN [raised |-> "AttributeError", value |-> <<>>]
    ELSE [raised |-> "", value |-> DictGet(resp.body, key, <<>>)]

---------------------------------------------------------------------------
(* create_tables_if_not_exist: the schema.                                 *)

BaseSchema ==
    << <<"id", "STRING">>, <<"name", "STRING">>, <<"description", "STRING">>,
       <<"status", "STRING">>, <<"priority", "INTEGER">>,
       <<"due_date", "TIMESTAMP">>, <<"space_id", "STRING">>,
       <<"list_id", "STRING">>, <<"created_at", "TIMESTAMP">>,
       <<"updated_at", "TIMESTAMP">> >>

KeyError == "KeyError"

\* field_type = "STRING"; if field['type'] == 'number': ... elif ... 'date'
\* field['type'] is a subscript: it raises KeyError when the key is absent.
FieldType(field) ==
    IF "type" \notin DOMAIN field THEN KeyError
    ELSE IF field["type"] = "number" THEN "FLOAT"
    ELSE IF field["type"] = "date" THEN "TIMESTAMP"
    ELSE "STRING"

\* the loop `for field in custom_fields` appending to tasks_schema
RECURSIVE SchemaLoop(_, _)
SchemaLoop(schema, fields) ==
    IF fields = <<>> THEN [raised |-> "", value |-> schema]
    ELSE LET field == Head(fields) IN
         IF FieldType(field) = KeyError \/ "id" \notin DOMAIN field
         THEN [raised |-> KeyError, value |-> schema]
         ELSE SchemaLoop(Append(schema, <<ColumnName(field["id"]), FieldType(field)>>),
                         Tail(fields))

---------------------------------------------------------------------------
(* fetch_tasks: flattening one task.                                       *)

\* Stores the entry's id where its value belongs.
FieldValueId(field) == field["id"]

\* field.get('value')
FieldValue(field) == DictGet(field, "value", None)

\* the loop `for field in custom_fields` of one task
RECURSIVE FlattenLoop(_, _)
FlattenLoop(task, fields) ==
    IF fields = <<>> THEN [raised |-> "", value |-> task]
    ELSE LET field == Head(fields) IN
         IF "id" \notin DOMAIN field
         THEN [raised |-> KeyError, value |-> task]
         ELSE FlattenLoop(SetKey(task, ColumnName(field["id"]), FieldValue(field)),
                          Tail(fields))

\* Keeps a space_id and list_id the task already carries.
AddContextKeep(task, space_id, list_id) ==
    SetKey(SetKey(task, "space_id", DictGet(task, "space_id", space_id)),
           "list_id", DictGet(task, "list_id", list_id))

\* task['space_id'] = space['id']; task['list_id'] = list_obj['id']
AddContext(task, space_id, list_id) ==
    SetKey(SetKey(task, "space_id", space_id), "list_id", list_id)

\* the body of `for task in list_tasks` up to tasks.append(task)
FlattenTask(task, space_id, list_id) ==
    LET r == FlattenLoop(task, DictGet(task, "custom_fields", <<>>)) IN
    IF r.raised # "" THEN r
    ELSE [raised |-> "", value |-> AddContext(r.value, space_id, list_id)]

\* the loop `for task in list_tasks`
RECURSIVE FlattenAll(_, _, _, _)
FlattenAll(acc, ts, space_id, list_id) ==
    IF ts = <<>> THEN [raised |-> "", value |-> acc]
    ELSE LET r == FlattenTask(Head(ts), space_id, list_id) IN
         IF r.raised # "" THEN [raised |-> r.raised, value |-> acc]
         ELSE FlattenAll(Append(acc, r.value), Tail(ts), space_id, list_id)

---------------------------------------------------------------------------
(* The warehouse.                                                          *)

NoTable == [exists |-> FALSE, schema |-> <<>>, rows |-> <<>>]

\* The table as the process may find it: absent, or left by an earlier run,
\* which created it (empty, or from a definition F1 of kind short_text) and
\* may have loaded the task of an earlier state of the workspace.
InitTables ==
    { NoTable,
      [exists |-> TRUE, schema |-> BaseSchema, rows |-> <<>>],
      [exists |-> TRUE,
       schema |-> SchemaLoop(BaseSchema, <<[id |-> "F1", type |-> "short_text"]>>).value,
       rows |-> FlattenAll(<<>>, <<[id |-> "T0"]>>, "S1", "L1").value] }

\* Replaces an existing table by a fresh one.
CreateTableReplace(t, schema) == [exists |-> TRUE, schema |-> schema, rows |-> <<>>]

\* self.client.create_table(table, exists_ok=True)
CreateTable(t, schema) ==
    IF t.exists THEN t ELSE [exists |-> TRUE, schema |-> schema, rows |-> <<>>]

\* Appends to the rows already there (WRITE_APPEND).
LoadRowsAppend(old, new) == old \o new

\* load_table_from_json under WriteDisposition.WRITE_TRUNCATE
LoadRows(old, new) == new

\* Issues the load job whatever the task list holds.
ShouldLoadAlways(ts) == TRUE

\* `if tasks:`
ShouldLoad(ts) == ts # <<>>

---------------------------------------------------------------------------
(* What the source API may answer during a run.                            *)

WorkspaceId == "W1"

Failures == {ConnError, NotJson, JsonArray, ErrorBody, NoKeyBody}

Responses(key, items, n) ==
    Failures \cup {OkBody(key, s) : s \in ListingsUpTo(items, n)}

SyncDefs ==
    { [id |-> "F1", type |-> "number"],
      [id |-> "F1", type |-> "short_text"],
      [id |-> "F1"] }

SpaceObjs == { [id |-> "S1"], [id |-> "S2"], [name |-> "space without id"] }

ListObjs == { [id |-> "L1"], [id |-> "L2"], [name |-> "list without id"] }

SyncTasks ==
    { [id |-> "T2", space_id |-> "S9", list_id |-> "L9",
       custom_fields |-> << [id |-> "F1", value |-> "4.5"] >>],
      [id |-> "T3", custom_fields |-> << [value |-> "5"] >>] }

---------------------------------------------------------------------------
(* Log lines.                                                              *)

StartLine     == "Starting ClickUp to BigQuery sync"
LoadedLine(n) == "Loaded " \o ToString(n) \o " tasks to BigQuery"
CompletedLine == "Sync completed successfully"
ErrorLine(e)  == "Error during sync: " \o e

---------------------------------------------------------------------------
(* sync_data.                                                              *)

Init ==
    /\ pc = "idle"
    /\ log = <<>>
    /\ table \in InitTables
    /\ custom_fields = <<>>
    /\ tasks_schema = <<>>
    /\ spaces = <<>>
    /\ lists = <<>>
    /\ list_tasks = <<>>
    /\ tasks = <<>>
    /\ calls = <<>>
    /\ origin = <<>>
    /\ rowsBefore = <<>>

Call(op, arg, resp) == [op |-> op, arg |-> arg, resp |-> resp]

\* except Exception as e: logger.error(...); raise
Raise(e) ==
    /\ pc' = "raised"
    /\ log' = Append(log, ErrorLine(e))

\* where the run goes once a list (or a space without lists) is finished
AfterList(ls, ss) ==
    IF ls # <<>> THEN "fetch_list_tasks"
    ELSE IF ss # <<>> THEN "fetch_lists"
    ELSE "load"

\* Skips the fetch of the definitions.
FirstStepCreate == "create_table"

\* create_tables_if_not_exist begins with self.fetch_custom_fields(...)
FirstStep == "fetch_custom_fields"

\* Goes on to the extraction without creating the table.
AfterSchemaSkip == "fetch_spaces"

\* after the schema loop: self.client.create_table(...)
AfterSchema == "create_table"

\* sync_data is entered: logger.info("Starting ...")
sync_data ==
    /\ pc = "idle"
    /\ log' = <<StartLine>>
    /\ tasks_schema' = BaseSchema
    /\ custom_fields' = <<>>
    /\ spaces' = <<>>
    /\ lists' = <<>>
    /\ list_tasks' = <<>>
    /\ tasks' = <<>>
    /\ calls' = <<>>
    /\ origin' = <<>>
    /\ rowsBefore' = table.rows
    /\ pc' = FirstStep
    /\ UNCHANGED table

fetch_custom_fields ==
    /\ pc = "fetch_custom_fields"
    /\ \E resp \in Responses("custom_fields", SyncDefs, MaxDefs) :
         LET r == JsonGet(resp, "custom_fields") IN
         /\ calls' = Append(calls, Call("custom_fields", WorkspaceId, resp))
         /\ IF r.raised # ""
            THEN Raise(r.raised) /\ UNCHANGED custom_fields
            ELSE /\ custom_fields' = r.value
                 /\ pc' = "build_schema"
                 /\ UNCHANGED log
    /\ UNCHANGED <<table, tasks_schema, spaces, lists, list_tasks, tasks,
                   origin, rowsBefore>>

build_schema ==
    /\ pc = "build_schema"
    /\ LET r == SchemaLoop(BaseSchema, custom_fields) IN
       IF r.raised # ""
       THEN Raise(r.raised) /\ UNCHANGED tasks_schema
       ELSE /\ tasks_schema' = r.value
            /\ pc' = AfterSchema
            /\ UNCHANGED log
    /\ UNCHANGED <<table, custom_fields, spaces, lists, list_tasks, tasks,
                   calls, origin, rowsBefore>>

create_table ==
    /\ pc = "create_table"
    /\ \E ok \in BOOLEAN :
         /\ calls' = Append(calls, Call("create_table", "tasks", [ok |-> ok]))
         /\ IF ok
            THEN /\ table' = CreateTable(table, tasks_schema)
                 /\ pc' = "fetch_spaces"
                 /\ UNCHANGED log
            ELSE Raise("Forbidden") /\ UNCHANGED table
    /\ UNCHANGED <<custom_fields, tasks_schema, spaces, lists, list_tasks,
                   tasks, origin, rowsBefore>>

fetch_spaces ==
    /\ pc = "fetch_spaces"
    /\ \E resp \in Responses("spaces", SpaceObjs, MaxSpaces) :
         LET r == JsonGet(resp, "spaces") IN
         /\ calls' = Append(calls, Call("spaces", WorkspaceId, resp))
         /\ IF r.raised # ""
            THEN Raise(r.raised) /\ UNCHANGED spaces
            ELSE /\ spaces' = r.value
                 /\ pc' = AfterList(<<>>, r.value)
                 /\ UNCHANGED log
    /\ UNCHANGED <<table, custom_fields, tasks_schema, lists, list_tasks,
                   tasks, origin, rowsBefore>>

fetch_lists ==
    /\ pc = "fetch_lists"
    /\ IF "id" \notin DOMAIN Head(spaces)
       THEN Raise(KeyError) /\ UNCHANGED <<calls, lists, spaces>>
       ELSE \E resp \in Responses("lists", ListObjs, MaxLists) :
              LET r == JsonGet(resp, "lists") IN
              /\ calls' = Append(calls, Call("lists", Head(spaces)["id"], resp))
              /\ IF r.raised # ""
                 THEN Raise(r.raised) /\ UNCHANGED <<lists, spaces>>
                 ELSE /\ lists' = r.value
                      /\ spaces' = IF r.value = <<>> THEN Tail(spaces) ELSE spaces
                      /\ pc' = AfterList(r.value, spaces')
                      /\ UNCHANGED log
    /\ UNCHANGED <<table, custom_fields, tasks_schema, list_tasks, tasks,
                   origin, rowsBefore>>

fetch_list_tasks ==
    /\ pc = "fetch_list_tasks"
    /\ IF "id" \notin DOMAIN Head(lists)
       THEN Raise(KeyError) /\ UNCHANGED <<calls, list_tasks>>
       ELSE \E resp \in Responses("tasks", SyncTasks, MaxTasks) :
              LET r == JsonGet(resp, "tasks") IN
              /\ calls' = Append(calls, Call("tasks", Head(lists)["id"], resp))
              /\ IF r.raised # ""
                 THEN Raise(r.raised) /\ UNCHANGED list_tasks
                 ELSE /\ list_tasks' = r.value
                      /\ pc' = "flatten"
                      /\ UNCHANGED log
    /\ UNCHANGED <<table, custom_fields, tasks_schema, spaces, lists, tasks,
                   origin, rowsBefore>>

\* the argument of the latest request of kind op
LastArg(op) ==
    LET I == {i \in 1..Len(calls) : calls[i].op = op} IN
    calls[CHOOSE i \in I : \A j \in I : j <= i].arg

flatten ==
    /\ pc = "flatten"
    /\ LET r == FlattenAll(tasks, list_tasks, Head(spaces)["id"], Head(lists)["id"])
           n == Len(r.value) - Len(tasks)   \* tasks appended before any raise
       IN
       /\ tasks' = r.value
       /\ origin' = origin \o
            [i \in 1..n |->
               [space |-> LastArg("lists"), list |-> LastArg("tasks"),
                task |-> list_tasks[i]]]
       /\ IF r.raised # ""
          THEN Raise(r.raised) /\ UNCHANGED <<lists, spaces, list_tasks>>
          ELSE /\ list_tasks' = <<>>
               /\ lists' = Tail(lists)
               /\ spaces' = IF Tail(lists) = <<>> THEN Tail(spaces) ELSE spaces
               /\ pc' = AfterList(lists', spaces')
               /\ UNCHANGED log
    /\ UNCHANGED <<table, custom_fields, tasks_schema, calls, rowsBefore>>

load ==
    /\ pc = "load"
    /\ IF ShouldLoad(tasks)
       THEN \E ok \in BOOLEAN :
              /\ calls' = Append(calls, Call("load", "tasks", [ok |-> ok]))
              /\ IF ok
                 THEN /\ table' = [table EXCEPT !.rows = LoadRows(table.rows, tasks)]
                      /\ log' = log \o <<LoadedLine(Len(tasks)), CompletedLine>>
                      /\ pc' = "done"
                 ELSE Raise("BadRequest") /\ UNCHANGED table
       ELSE /\ log' = Append(log, CompletedLine)
            /\ pc' = "done"
            /\ UNCHANGED <<calls, table>>
    /\ UNCHANGED <<custom_fields, tasks_schema, spaces, lists, list_tasks,
                   tasks, origin, rowsBefore>>

Next ==
    \/ sync_data
    \/ fetch_custom_fields
    \/ build_schema
    \/ create_table
    \/ fetch_spaces
    \/ fetch_lists
    \/ fetch_list_tasks
    \/ flatten
    \/ load

Spec == Init /\ [][Next]_vars

---------------------------------------------------------------------------
(* The schema loop on its own, over every short list of definitions.       *)

AllDefs ==
    {[id |-> f, type |-> k] : f \in {"F1", "F2"},
                              k \in {"number", "date", "short_text", "no_such_kind"}}
    \cup {[id |-> f] : f \in {"F1", "F2"}}
    \cup {[type |-> "number"]}

InitSchema ==
    /\ pc = "build_schema"
    /\ log = <<StartLine>>
    /\ table = NoTable
    /\ custom_fields \in SeqsUpTo(AllDefs, MaxPure)
    /\ tasks_schema = BaseSchema
    /\ spaces = <<>>
    /\ lists = <<>>
    /\ list_tasks = <<>>
    /\ tasks = <<>>
    /\ calls = <<Call("custom_fields", WorkspaceId, OkBody("custom_fields", custom_fields))>>
    /\ origin = <<>>
    /\ rowsBefore = <<>>

SpecSchema == InitSchema /\ [][build_schema]_vars

---------------------------------------------------------------------------
(* The flattening loop on its own, over every small task.                  *)

AllEntries ==
    {[id |-> f, value |-> v] : f \in {"F1", "F2"}, v \in {"4.5", "abc"}}
    \cup {[id |-> f] : f \in {"F1", "F2"}}
    \cup {[value |-> v] : v \in {"4.5", "abc"}}

\* a task as the API returns it: with or without custom_fields, with or
\* without keys that the flattening is about to write
AllTasks ==
    LET Plain == {[id |-> "T1"]} \cup
                 {[id |-> "T1", custom_fields |-> e] : e \in SeqsUpTo(AllEntries, MaxPure)}
        WithContext == Plain \cup
                 {SetKey(SetKey(t, "space_id", "S9"), "list_id", "L9") : t \in Plain}
    IN  WithContext \cup {SetKey(t, ColumnName("F1"), "old") : t \in WithContext}

InitFlatten ==
    /\ pc = "flatten"
    /\ log = <<StartLine>>
    /\ table = [exists |-> TRUE, schema |-> BaseSchema, rows |-> <<>>]
    /\ custom_fields = <<>>
    /\ tasks_schema = BaseSchema
    /\ \E s \in {"S1", "S2"}, l \in {"L1", "L2"}, t \in AllTasks :
         /\ spaces = <<[id |-> s]>>
         /\ lists = <<[id |-> l]>>
         /\ list_tasks = <<t>>
         /\ calls = << Call("custom_fields", WorkspaceId, OkBody("custom_fields", <<>>)),
                       Call("create_table", "tasks", [ok |-> TRUE]),
                       Call("spaces", WorkspaceId, OkBody("spaces", spaces)),
                       Call("lists", s, OkBody("lists", lists)),
                       Call("tasks", l, OkBody("tasks", list_tasks)) >>
    /\ tasks = <<>>
    /\ origin = <<>>
    /\ rowsBefore = <<>>

SpecFlatten == InitFlatten /\ [][flatten]_vars

---------------------------------------------------------------------------
(* Vocabulary of the properties.                                           *)

Ops(op) == {i \in 1..Len(calls) : calls[i].op = op}

SourceOps == {"custom_fields", "custom_task_types", "spaces", "lists", "tasks"}

ExtractOps == {"spaces", "lists", "tasks"}

\* the key a response to op is expected to carry: the name of the listing
ExpectedKey(op) == op

\* the answer to call c is a source-API failure: no answer or an HTTP error
\* status, a body that is not a JSON object, or an object without the key
IsApiFailure(c) ==
    /\ c.op \in SourceOps
    /\ \/ c.resp.status # 200
       \/ c.resp.json # "object"
       \/ ExpectedKey(c.op) \notin DOMAIN c.resp.body

RunEnded == pc \in {"done", "raised"}

\* the entries of the custom-fields collection of a source task
EntriesOf(t) == DictGet(t, "custom_fields", <<>>)

---------------------------------------------------------------------------
(* C1 *)

\* the column type the claim gives a definition
ClaimedType(d) ==
    IF "type" \notin DOMAIN d THEN "STRING"
    ELSE IF d["type"] = "number" THEN "FLOAT"
    ELSE IF d["type"] = "date" THEN "TIMESTAMP"
    ELSE "STRING"

\* C1: once the schema loop has run over definitions that all carry an id,
\* the build has completed and the column of the i-th definition is
\* custom_field_<id> with type FLOAT for kind number, TIMESTAMP for kind
\* date and STRING for any other kind, an absent kind included.
C1_TypeMapping ==
    (pc # "build_schema" /\ \A i \in 1..Len(custom_fields) : "id" \in DOMAIN custom_fields[i])
    => /\ pc # "raised"
       /\ Len(tasks_schema) = Len(BaseSchema) + Len(custom_fields)
       /\ \A i \in 1..Len(custom_fields) :
            tasks_schema[Len(BaseSchema) + i] =
                <<ColumnName(custom_fields[i]["id"]), ClaimedType(custom_fields[i])>>

---------------------------------------------------------------------------
(* C2 *)

\* entry j of source task t is carried by record r under custom_field_<id>
Carried(r, t, j) ==
    LET e == EntriesOf(t)[j] IN
    /\ ColumnName(e["id"]) \in DOMAIN r
    /\ r[ColumnName(e["id"])] = DictGet(e, "value", None)

\* C2 as stated: every flattened record carries, for every entry of its
\* task's custom-fields collection, the key custom_field_<id> with that
\* entry's value (null for an entry without a value).
C2_EveryEntryCarried ==
    \A i \in 1..Len(tasks) :
        \A j \in 1..Len(EntriesOf(origin[i].task)) :
            Carried(tasks[i], origin[i].task, j)

\* no later entry of the collection has the id of entry j
LastWithId(t, j) ==
    \A k \in (j + 1)..Len(EntriesOf(t)) : EntriesOf(t)[k]["id"] # EntriesOf(t)[j]["id"]

\* C2 amended: every flattened record carries the key custom_field_<id> for
\* every entry of its task's custom-fields collection, and the value under
\* the key is the unchanged value of the last entry with that id (null when
\* that entry has no value); an entry whose id no later entry repeats is
\* therefore carried unchanged.
C2_LastEntryCarried ==
    \A i \in 1..Len(tasks) :
        \A j \in 1..Len(EntriesOf(origin[i].task)) :
            /\ ColumnName(EntriesOf(origin[i].task)[j]["id"]) \in DOMAIN tasks[i]
            /\ LastWithId(origin[i].task, j) => Carried(tasks[i], origin[i].task, j)

\* a task with two entries of different ids and values, flattened over a key
\* custom_field_F1 it already carried with another value
C2_Witness ==
    /\ pc = "load"
    /\ Len(tasks) = 1
    /\ LET t == origin[1].task IN
       /\ Len(EntriesOf(t)) = 2
       /\ EntriesOf(t)[1] = [id |-> "F1", value |-> "4.5"]
       /\ EntriesOf(t)[2] = [id |-> "F2", value |-> "abc"]
       /\ ColumnName("F1") \in DOMAIN t
       /\ tasks[1][ColumnName("F1")] = "4.5"
       /\ tasks[1][ColumnName("F2")] = "abc"

---------------------------------------------------------------------------
(* C3 *)

\* C3: when a run has completed successfully with a non-empty extracted
\* record set, the rows of the table are exactly the extracted records.
C3_WholeTableOverwrite ==
    (pc = "done" /\ tasks # <<>>) => table.rows = tasks

\* a completed run that replaced other, non-empty rows of an earlier run
C3_Witness ==
    /\ pc = "done"
    /\ tasks # <<>>
    /\ rowsBefore # <<>>
    /\ rowsBefore # tasks
    /\ table.rows = tasks

---------------------------------------------------------------------------
(* C4 *)

\* C4: with an empty extracted task set the load step issues no call,
\* leaves the table alone and ends the run successfully; in every run that
\* completed with an empty task set no load call was issued and the rows
\* are those the table held when the run started.
C4_EmptySkipsLoad ==
    /\ []((pc = "done" /\ tasks = <<>>) => (Ops("load") = {} /\ table.rows = rowsBefore))
    /\ [][(pc = "load" /\ tasks = <<>>) =>
            (pc' = "done" /\ calls' = calls /\ table' = table)]_vars

\* a run over a workspace without tasks completed while the table held rows
C4_Witness ==
    /\ pc = "done"
    /\ tasks = <<>>
    /\ Ops("spaces") # {}
    /\ rowsBefore # <<>>
    /\ log = <<StartLine, CompletedLine>>

---------------------------------------------------------------------------
(* C5 *)

\* C5: once any fetch of the run was answered by a source-API failure, the
\* run has failed: the error is logged last, the exception is re-raised, no
\* load call was issued and the run does not report completion.
C5_AnyApiFailureFailsRun ==
    (\E i \in 1..Len(calls) : IsApiFailure(calls[i]))
    => /\ pc = "raised"
       /\ log[Len(log)] \notin {StartLine, CompletedLine}
       /\ Ops("load") = {}
       /\ \A i \in 1..Len(log) : log[i] # CompletedLine

---------------------------------------------------------------------------
(* C6 *)

ZeroSpaces ==
    \E i \in Ops("spaces") : calls[i].resp = OkBody("spaces", <<>>)

\* C6: a completed run over a workspace with zero spaces extracted nothing,
\* issued no load call, and logged a line of its own for the zero outcome
\* (a line that is neither the start line nor the completion line).
C6_ZeroReported ==
    (pc = "done" /\ ZeroSpaces)
    => /\ tasks = <<>>
       /\ Ops("load") = {}
       /\ \E i \in 1..Len(log) : log[i] \notin {StartLine, CompletedLine}

---------------------------------------------------------------------------
(* C7 *)

\* C7: the create step of a run that finds the table existing leaves the
\* table as it is: not dropped, same schema, same rows.
C7_CreateKeepsExisting ==
    [][(pc = "create_table" /\ table.exists) => table' = table]_vars

\* the create step of a later run has acted on a table that holds rows and
\* a schema other than the one derived in this run
C7_Witness ==
    /\ pc = "fetch_spaces"
    /\ rowsBefore # <<>>
    /\ table.exists
    /\ table.rows # <<>>
    /\ table.schema # tasks_schema

---------------------------------------------------------------------------
(* C8 *)

\* C8: every record of tasks has space_id equal to the id the lists request
\* was made for and list_id equal to the id the tasks request was made for.
C8_ContextIds ==
    /\ Len(origin) = Len(tasks)
    /\ \A i \in 1..Len(tasks) :
         /\ tasks[i]["space_id"] = origin[i].space
         /\ tasks[i]["list_id"] = origin[i].list

\* two records from different spaces and lists, whose source tasks carried
\* a space_id and a list_id of their own
C8_Witness ==
    /\ pc = "done"
    /\ Len(tasks) = 2
    /\ origin[1].space # origin[2].space
    /\ origin[1].list # origin[2].list
    /\ "space_id" \in DOMAIN origin[1].task
    /\ origin[1].task["space_id"] # origin[1].space
    /\ origin[2].task["list_id"] # origin[2].list

---------------------------------------------------------------------------
(* C9 *)

\* the order of the calls made so far is the one the claim fixes
CallOrder ==
    /\ \A i \in 1..Len(calls) :
         calls[i].op \in ExtractOps => \E j \in 1..(i - 1) : calls[j].op = "create_table"
    /\ Cardinality(Ops("load")) <= 1
    /\ \A i \in Ops("load") :
         /\ i = Len(calls)
         /\ pc \in {"done", "raised"}

\* C9 as stated: in every run that has ended the create-table call was
\* issued exactly once, before every spaces, lists and tasks request; the
\* load call at most once, after the last request, with no request after it.
C9_CreateExactlyOnce ==
    /\ CallOrder
    /\ RunEnded => Cardinality(Ops("create_table")) = 1

\* C9 amended: the create-table call is issued at most once in a run, and
\* exactly once in every run that reaches the extraction or completes (a
\* run that fails while the schema is built issues none); it precedes every
\* spaces, lists and tasks request; the load call is issued at most once,
\* after the last tasks request, and it is the last call of the run.
C9_FixedOrder ==
    /\ CallOrder
    /\ Cardinality(Ops("create_table")) <= 1
    /\ pc \in {"fetch_spaces", "fetch_lists", "fetch_list_tasks", "flatten", "load", "done"}
         => Cardinality(Ops("create_table")) = 1

\* a completed run with two tasks requests and a load call
C9_Witness ==
    /\ pc = "done"
    /\ Cardinality(Ops("tasks")) = 2
    /\ Ops("load") = {Len(calls)}
    /\ Ops("create_table") = {2}

---------------------------------------------------------------------------
(* C10 *)

\* C10 as stated: when the table is about to be created or has been, both
\* the custom-field definitions and the custom task-type definitions have
\* been requested exactly once each.
C10_BothMetadataFetched ==
    (pc = "create_table" \/ Ops("create_table") # {})
    => /\ Cardinality(Ops("custom_fields")) = 1
       /\ Cardinality(Ops("custom_task_types")) = 1

\* C10 amended: every run requests the custom-field definitions exactly
\* once, as its first call and so before the table is created; it never
\* requests the custom task-type definitions.
C10_OnlyCustomFieldsFetched ==
    /\ Ops("custom_task_types") = {}
    /\ Cardinality(Ops("custom_fields")) <= 1
    /\ pc \notin {"idle", "fetch_custom_fields"} => Ops("custom_fields") = {1}
    /\ \A i \in Ops("create_table") : i > 1

\* the table was created from definitions fetched in this run
C10_Witness ==
    /\ pc = "fetch_spaces"
    /\ Ops("custom_fields") = {1}
    /\ Ops("create_table") = {2}
    /\ calls[1].resp.json = "object"
    /\ Len(tasks_schema) > Len(BaseSchema)
    /\ table.schema = tasks_schema

====
